---- MODULE Spec2Model ----
(***************************************************************************)
(* The AI provider adapter layer of the chat application: the vendor       *)
(* adapters (OpenAI, OpenAI Responses, Claude, Gemini, Qwen, Ollama, xAI)  *)
(* and the AIServiceManager that dispatches chat, streamChat,              *)
(* testConnection and getAvailableModels to them.                          *)
(*                                                                         *)
(* One call is followed from its start to its end: the vendor requests it  *)
(* issues, the vendor's answers, the events of the vendor stream, the      *)
(* chunks the generator yields and the value returned or error raised.     *)
(* Text is a sequence of characters, an optional value is <<>> (undefined) *)
(* or <<v>>, a temperature is counted in tenths (7 is 0.7).                *)
(***************************************************************************)
EXTENDS Integers, Sequences, FiniteSets, TLC

\* ---------------------------------------------------------------- bounds
\* vendor stream events read by one streamChat call
MaxEvents == 3
\* messages of one input list of the message-conversion specification
MaxMessages == 3
\* length of the silence step of the clock, in ms
TickMs == 15000

\* ------------------------------------------------------ program constants
\* `config.temperature || 0.7`, in tenths
DefaultTemperature == 7
\* `config.maxTokens || 2000`
DefaultMaxTokens == 2000
\* the only stall interval of the repository: the chat page's reader, in ms
StreamTimeoutMs == 30000

None == <<>>
Some(v) == <<v>>

\* ------------------------------------------------------------- the types
\* AIProvider, plus an id no adapter is registered for
AIProvider == {"openai", "openai-responses", "claude", "gemini", "xai", "ollama", "qwen"}
UnknownProvider == "unknown"
ProviderIds == AIProvider \cup {UnknownProvider}

\* the adapter classes; the two revisions of OpenAIResponsesAdapter are told
\* apart: the stateful one and the simplified one
AdapterClass == {"OpenAIAdapter", "OpenAIResponsesAdapter", "OpenAIResponsesSimple",
                 "ClaudeAdapter", "GeminiAdapter", "QwenAdapter", "OllamaAdapter",
                 "XAIAdapter"}

\* the `provider` field of each adapter class
ProviderOf(c) ==
  CASE c = "OpenAIAdapter" -> "openai"
    [] c \in {"OpenAIResponsesAdapter", "OpenAIResponsesSimple"} -> "openai-responses"
    [] c = "ClaudeAdapter" -> "claude"
    [] c = "GeminiAdapter" -> "gemini"
    [] c = "QwenAdapter" -> "qwen"
    [] c = "OllamaAdapter" -> "ollama"
    [] OTHER -> "xai"

\* XAIAdapter is the vendor without the optional streaming capability
XAIHasStreamChat == FALSE

\* `streamChat?` of AIServiceAdapter: every other class defines the method
HasStreamChat(c) == c = "XAIAdapter" => XAIHasStreamChat

\* the classes speaking the OpenAI chat-completions wire format through the SDK
OpenAIWire == {"OpenAIAdapter", "QwenAdapter", "OllamaAdapter"}

\* the adapters that retry a rejected temperature
RetriesTemperature(c) == c \in {"OpenAIAdapter", "OpenAIResponsesSimple"}

\* ChatMessage
Msg(r, t) == [role |-> r, content |-> t]
MessageLists ==
  { << Msg("system", <<"s">>), Msg("user", <<"a">>) >>,
    << Msg("user", <<"a">>), Msg("assistant", <<"b">>), Msg("user", <<"c">>) >>,
    << Msg("system", <<"s">>) >> }

\* AIServiceConfig: the fields the modelled operations read
Config(t, m, k, u) ==
  [model |-> "m", temperature |-> t, maxTokens |-> m, topP |-> None, apiKey |-> k, baseUrl |-> u,
   previousResponseId |-> None]
ChatConfigs ==
  { Config(None, None, "key", None),
    Config(Some(0), Some(100), "key", None),
    Config(Some(10), None, "key", Some("custom")),
    Config(Some(50), None, "", None),
    [Config(None, None, "key", None) EXCEPT !.previousResponseId = Some("resp_0")] }
ProbeConfigs ==
  { Config(None, None, k, u) : k \in {"", "key"}, u \in {None, Some("custom")} }

\* StreamResponse
Chunk(t, d) == [content |-> t, done |-> d]

\* the text deltas a vendor produces
Deltas == { <<"a">>, <<"b">> }

\* `x || d` on an optional number: undefined and 0 are both falsy
OrDefault(x, d) == IF x = None \/ x = Some(0) THEN d ELSE x[1]

\* ------------------------------------------------------------ the errors
\* an error object: `status` is what the vendor SDK sets, `statusCode` what
\* AIServiceError sets
Error(n, msg, p, st, sc, c, prm) ==
  [name |-> n, message |-> msg, provider |-> p, status |-> st, statusCode |-> sc,
   code |-> c, param |-> prm]
NoError == Error("", "", "", None, None, "", "")

\* what the vendor SDK or fetch throws
VendorError(msg, st, c, prm) == Error("APIError", msg, "", st, None, c, prm)
UnsupportedTemperature == VendorError("unsupported temperature", Some(400), "unsupported_value", "temperature")
VendorErrors ==
  { UnsupportedTemperature,
    VendorError("unsupported max_tokens", Some(400), "unsupported_value", "max_tokens"),
    VendorError("invalid api key", Some(401), "invalid_api_key", ""),
    VendorError("", None, "ECONNRESET", "") }

\* new AIServiceError(message, provider, statusCode, originalError)
AIServiceError(msg, p, sc) == Error("AIServiceError", msg, p, None, sc, "", "")

\* the catch block of every adapter operation:
\* new AIServiceError(error.message || fallback, provider, error.status, error)
WrapError(e, p, fallback) ==
  AIServiceError(IF e.message = "" THEN fallback ELSE e.message, p, e.status)

\* ------------------------------------------------- message conversion
RECURSIVE Flatten(_)
Flatten(ss) == IF ss = <<>> THEN <<>> ELSE Head(ss) \o Flatten(Tail(ss))

IsSystem(m) == m.role = "system"
NotSystem(m) == m.role # "system"
IsUser(m) == m.role = "user"

\* ClaudeAdapter.convertMessages: the first system message is the system field
ClaudeConvertMessages(msgs) ==
  LET sys == SelectSeq(msgs, IsSystem)
  IN  [messages |-> SelectSeq(msgs, NotSystem),
       system |-> IF Len(sys) > 0 THEN Some(sys[1].content) ELSE None]

\* mutant: a system message is also pushed to the history, as a user turn
GeminiConvertMessagesKeepsSystem(msgs) ==
  LET sys == SelectSeq(msgs, IsSystem)
  IN  [history |-> [i \in 1..Len(msgs) |->
                      [role |-> IF msgs[i].role = "assistant" THEN "model" ELSE "user",
                       content |-> msgs[i].content]],
       systemInstruction |-> IF Len(sys) > 0 /\ sys[Len(sys)].content # <<>>
                             THEN Some(sys[Len(sys)].content) ELSE None]

\* GeminiAdapter.convertMessages: the loop overwrites systemInstruction, and
\* maps assistant to model
GeminiRole(m) == Msg(IF m.role = "assistant" THEN "model" ELSE m.role, m.content)
GeminiConvertMessages(msgs) ==
  LET sys == SelectSeq(msgs, IsSystem)
      turns == SelectSeq(msgs, NotSystem)
  IN  [history |-> [i \in 1..Len(turns) |-> GeminiRole(turns[i])],
       systemInstruction |-> IF Len(sys) > 0 /\ sys[Len(sys)].content # <<>>
                             THEN Some(sys[Len(sys)].content) ELSE None]

\* messages.filter(m => m.role === 'user').pop()
LastUserMessage(msgs) ==
  LET us == SelectSeq(msgs, IsUser)
  IN  IF Len(us) > 0 THEN Some(us[Len(us)].content) ELSE None

\* ------------------------------------------------- the vendor requests
Request(a, msgs, sys, msg, mt, t, st) ==
  [api |-> a, model |-> "m", messages |-> msgs, system |-> sys, message |-> msg,
   max_tokens |-> mt, temperature |-> t, stream |-> st,
   previous_response_id |-> None, include |-> None]

\* XAIAdapter.chat: unset optional parameters are omitted
XAIBuildRequest(msgs, cfg, st) ==
  Request("chat.completions", msgs, None, None, cfg.maxTokens, cfg.temperature, st)

\* mutant: every adapter passes the previous response id to its vendor
ChainingForAll(c, cfg) ==
  [previous_response_id |-> cfg.previousResponseId, include |-> None]

\* `if (config.previousResponseId)`: the stateful Responses adapter sets
\* previous_response_id, the simplified one an entry of include, and no other
\* adapter reads the field
Chaining(c, cfg) ==
  CASE c = "OpenAIResponsesAdapter" ->
         [previous_response_id |-> cfg.previousResponseId, include |-> None]
    [] c = "OpenAIResponsesSimple" ->
         [previous_response_id |-> None, include |-> cfg.previousResponseId]
    [] OTHER -> [previous_response_id |-> None, include |-> None]

\* the messages and the generation parameters of each adapter's requestParams
\* / streamParams
RequestParams(c, msgs, cfg, st) ==
  CASE c \in {"OpenAIAdapter", "QwenAdapter", "OllamaAdapter"} ->
         Request("chat.completions", msgs, None, None,
                 Some(OrDefault(cfg.maxTokens, DefaultMaxTokens)),
                 Some(OrDefault(cfg.temperature, DefaultTemperature)), st)
    [] c = "OpenAIResponsesSimple" ->
         Request("responses", msgs, None, None,
                 Some(OrDefault(cfg.maxTokens, DefaultMaxTokens)),
                 Some(OrDefault(cfg.temperature, DefaultTemperature)), FALSE)
    [] c = "OpenAIResponsesAdapter" ->
         Request("responses", msgs, None, None, cfg.maxTokens, cfg.temperature, FALSE)
    [] c = "ClaudeAdapter" ->
         Request("messages", ClaudeConvertMessages(msgs).messages,
                 IF ClaudeConvertMessages(msgs).system = Some(<<>>) THEN None
                 ELSE ClaudeConvertMessages(msgs).system, None,
                 Some(OrDefault(cfg.maxTokens, DefaultMaxTokens)),
                 Some(OrDefault(cfg.temperature, DefaultTemperature)), st)
    [] c = "GeminiAdapter" ->
         LET h == GeminiConvertMessages(msgs).history
         IN  Request(IF Len(h) > 1 THEN "sendMessage" ELSE "generateContent",
                     IF Len(h) > 1 THEN SubSeq(h, 1, Len(h) - 1) ELSE <<>>,
                     GeminiConvertMessages(msgs).systemInstruction,
                     LastUserMessage(msgs),
                     Some(OrDefault(cfg.maxTokens, DefaultMaxTokens)),
                     Some(OrDefault(cfg.temperature, DefaultTemperature)), st)
    [] OTHER -> XAIBuildRequest(msgs, cfg, st)

\* requestParams / streamParams of each adapter's chat and streamChat
BuildRequest(c, msgs, cfg, st) ==
  [RequestParams(c, msgs, cfg, st) EXCEPT
     !.previous_response_id = Chaining(c, cfg).previous_response_id,
     !.include = Chaining(c, cfg).include]

\* mutant: the retry sets the default temperature instead of deleting it
WithoutTemperatureSetsDefault(req) == [req EXCEPT !.temperature = Some(DefaultTemperature)]

\* delete requestParams.temperature
WithoutTemperature(req) == [req EXCEPT !.temperature = None]

\* error.code === 'unsupported_value' && error.param === 'temperature'
IsUnsupportedTemperature(e) == e.code = "unsupported_value" /\ e.param = "temperature"

\* ------------------------------------------------------------- the state
VARIABLES
  adapters,   \* AIServiceManager.adapters: vendor id -> adapter class
  op,         \* the operation of the call: "none" before it starts
  provider,   \* the vendor id the caller passed
  cls,        \* the adapter the dispatcher resolved, "none" if none
  messages,   \* the caller's messages
  config,     \* the caller's config
  pc,         \* "idle", "awaitResponse", "streaming", "returned" or "raised"
  requests,   \* the vendor requests issued, in order
  answers,    \* the vendor's answer to each request: NoError or the error thrown
  produced,   \* the text deltas of the vendor's completion, in order
  events,     \* the vendor stream events the generator has read
  transport,  \* the vendor stream: "none", "open", "ended", "failed" or "released"
  idle,       \* ms since the vendor stream last delivered an event
  yielded,    \* the chunks the adapter's generator has yielded
  out,        \* the chunks the caller has received
  invoked,    \* the adapter methods invoked
  net,        \* what a probe of the vendor meets
  result      \* the value returned or the error raised

VARIABLES
  client,        \* the HTTP client of the streaming route: "connected" | "disconnected"
  calls,         \* the concurrent calls on the singleton: arguments, answers heard, locals
  stored,        \* the messages table of one conversation, in creation order
  handed,        \* the message list the chat route handed to aiServiceManager
  dbInitialized, \* the module flag of ensureDatabaseInitialized
  initRuns,      \* the number of jsonDatabase.init() calls so far
  data,          \* JSONDatabase.data: the records in memory
  file,          \* the content of database.json, None while it does not exist
  dbreq          \* the concurrent requests on the JSON database: position and locals

\* the variables of the dispatcher and of the one call it follows
managerVars == << adapters, op, provider, cls, messages, config, pc, requests, answers,
                  produced, events, transport, idle, yielded, out, invoked, net, result >>
\* the variables of the chat routes
routeVars == << stored, handed >>
\* the variables of the JSON database and its callers
databaseVars == << dbInitialized, initRuns, data, file, dbreq >>
\* what no operation of the dispatcher touches
outsideCall == << client, calls, routeVars, databaseVars >>

vars == << managerVars, client, calls, routeVars, databaseVars >>

\* [kind: "none" | "value" | "error"]: content of an AIResponse, the boolean of
\* testConnection, the model list of getAvailableModels, or the error raised
Result(k, c, b, l, e) ==
  [kind |-> k, content |-> c, flag |-> b, list |-> l, error |-> e, responseId |-> None]
NoResult == Result("none", <<>>, FALSE, <<>>, NoError)
Returned(c) == Result("value", c, FALSE, <<>>, NoError)
ReturnedFlag(b) == Result("value", <<>>, b, <<>>, NoError)
ReturnedList(l) == Result("value", <<>>, FALSE, l, NoError)
Raised(e) == Result("error", <<>>, FALSE, <<>>, e)

NoNet == [credentialOk |-> TRUE, configUrlUp |-> TRUE, vendorUrlUp |-> TRUE, body |-> "models"]

\* the constructor of AIServiceManager: the revision with and the one without
\* the Qwen adapter
Registry(resp, withQwen) ==
  [p \in (IF withQwen THEN AIProvider ELSE AIProvider \ {"qwen"}) |->
     CASE p = "openai" -> "OpenAIAdapter"
       [] p = "openai-responses" -> resp
       [] p = "claude" -> "ClaudeAdapter"
       [] p = "gemini" -> "GeminiAdapter"
       [] p = "xai" -> "XAIAdapter"
       [] p = "ollama" -> "OllamaAdapter"
       [] OTHER -> "QwenAdapter"]
Registries ==
  { Registry(resp, q) : resp \in {"OpenAIResponsesAdapter", "OpenAIResponsesSimple"},
                        q \in BOOLEAN }

\* the callers that use the aiServiceManager singleton at the same time
MaxCallers == 2
Callers == 1 .. MaxCallers

\* a caller that has not called yet: its arguments, the vendor's answers to
\* its awaits, and the local variables of the method it runs
NoArgs ==
  [op |-> "none", provider |-> "", messages |-> <<>>, config |-> Config(None, None, "", None),
   net |-> NoNet]
IdleFrame ==
  [cls |-> "none", pc |-> "idle", requests |-> <<>>, events |-> <<>>, yielded |-> <<>>,
   result |-> NoResult]
IdleCall == [args |-> NoArgs, heard |-> <<>>, frame |-> IdleFrame]

\* the requests that use the JSON database at the same time
MaxRequests == 2
Requests == 1 .. MaxRequests
IdleRequest == [pc |-> "start", kind |-> "none", snapshot |-> {}]

Init ==
  /\ adapters \in Registries
  /\ op = "none" /\ provider = "" /\ cls = "none"
  /\ messages = <<>> /\ config = Config(None, None, "", None)
  /\ pc = "idle"
  /\ requests = <<>> /\ answers = <<>> /\ produced = <<>> /\ events = <<>>
  /\ transport = "none" /\ idle = 0
  /\ yielded = <<>> /\ out = <<>> /\ invoked = <<>>
  /\ net = NoNet
  /\ result = NoResult
  /\ client = "connected"
  /\ calls = [i \in Callers |-> IdleCall]
  /\ stored = <<>> /\ handed = None
  /\ dbInitialized = FALSE /\ initRuns = 0 /\ data = {} /\ file = None
  /\ dbreq = [i \in Requests |-> IdleRequest]

\* mutant: an unknown vendor id falls back to the OpenAI adapter
getAdapterWithFallback(p) ==
  [found |-> TRUE,
   adapter |-> IF p \in DOMAIN adapters THEN adapters[p] ELSE "OpenAIAdapter",
   error |-> NoError]

\* AIServiceManager.getAdapter: the adapter, or the error it throws
getAdapter(p) ==
  IF p \in DOMAIN adapters
  THEN [found |-> TRUE, adapter |-> adapters[p], error |-> NoError]
  ELSE [found |-> FALSE, adapter |-> "none",
        error |-> AIServiceError("unsupported provider", p, None)]

\* the fallback message of an adapter's catch block
Fallback(c, o) == "call failed"

\* ------------------------------------------------------------------ chat
\* XAIAdapter.chat: a response without completion text is an error
XAIChatOutcome(text) ==
  IF text = <<>>
  THEN Raised(AIServiceError("No response content", "xai", None))
  ELSE Returned(text)

\* `response.id` of the vendor's answer to responses.create
VendorResponseId == "resp_1"

\* what chat makes of a 2xx answer whose completion text is `text`
ChatOutcome(c, text) ==
  CASE c \in {"ClaudeAdapter", "GeminiAdapter"} -> Returned(text)
    [] c \in {"OpenAIResponsesAdapter", "OpenAIResponsesSimple"} ->
         IF text = <<>>
         THEN Raised(AIServiceError("No text content", ProviderOf(c), None))
         ELSE [Returned(text) EXCEPT !.responseId = Some(VendorResponseId)]
    [] c \in OpenAIWire ->
         IF text = <<>>
         THEN Raised(AIServiceError("No response content", ProviderOf(c), None))
         ELSE Returned(text)
    [] OTHER -> XAIChatOutcome(text)

\* the outer catch of chat: OpenAIResponsesSimple rethrows an AIServiceError
\* as it is, every other adapter wraps whatever was thrown
ChatCatch(c, e) ==
  IF c = "OpenAIResponsesSimple" /\ e.name = "AIServiceError"
  THEN e
  ELSE WrapError(e, ProviderOf(c), Fallback(c, "chat"))

\* the catch of streamChat; OpenAIResponsesSimple.streamChat catches what
\* its own chat has thrown
StreamCatch(c, e) ==
  IF c = "OpenAIResponsesSimple"
  THEN WrapError(ChatCatch(c, e), ProviderOf(c), Fallback(c, "streamChat"))
  ELSE WrapError(e, ProviderOf(c), Fallback(c, "streamChat"))

\* mutant: the retry matches the error code only, whatever the parameter
RetriesAfterAnyParam(c, attempt, e) ==
  RetriesTemperature(c) /\ attempt = 1 /\ e.code = "unsupported_value"

\* the inner catch around the create call: TRUE when the request is sent again
\* without temperature. `attempt` is the number of requests sent so far
RetriesAfter(c, attempt, e) ==
  RetriesTemperature(c) /\ attempt = 1 /\ IsUnsupportedTemperature(e)

\* the completions a vendor may produce, as lists of text deltas
RECURSIVE SeqsUpTo(_, _)
SeqsUpTo(S, n) ==
  IF n = 0 THEN { <<>> }
  ELSE LET shorter == SeqsUpTo(S, n - 1)
       IN  shorter \cup { Append(q, x) : q \in shorter, x \in S }
Completions == SeqsUpTo(Deltas, MaxEvents)

Last(q) == q[Len(q)]

\* mutant: the dispatcher catches what the adapter throws and raises an error
\* of its own
ForwardWrapsErrors(r) ==
  IF r.kind = "error"
  THEN Raised(AIServiceError("dispatch failed", r.error.provider, None))
  ELSE r

\* `return adapter.chat(messages, config)`, `yield* adapter.streamChat(...)`
\* and `return adapter.getAvailableModels(config)`: what the adapter returns
\* or throws is what the caller of the dispatcher gets
Forward(r) == r

\* the part of chat and streamChat before the first await: the adapter's
\* method is entered and either throws or issues its first vendor request
AdapterEntry(c, o, msgs, cfg) ==
  /\ cls' = c
  /\ IF o = "streamChat" /\ c = "OpenAIResponsesSimple"
     THEN invoked' = << <<c, "streamChat">>, <<c, "chat">> >>
     ELSE invoked' = << <<c, o>> >>
  /\ IF o = "streamChat" /\ c = "OpenAIResponsesAdapter"
     THEN /\ requests' = <<>>
          /\ pc' = "raised"
          /\ result' = Forward(Raised(AIServiceError("streaming not supported", ProviderOf(c), None)))
     ELSE IF c = "GeminiAdapter" /\ LastUserMessage(msgs) = None
     THEN /\ requests' = <<>>
          /\ pc' = "raised"
          /\ result' = Forward(Raised(
               IF o = "chat"
               THEN ChatCatch(c, AIServiceError("No user message found", "gemini", None))
               ELSE StreamCatch(c, AIServiceError("No user message found", "gemini", None))))
     ELSE /\ requests' = << BuildRequest(c, msgs, cfg, o = "streamChat") >>
          /\ pc' = "awaitResponse"
          /\ result' = NoResult

\* AIServiceManager.chat
chat(p, msgs, cfg) ==
  /\ pc = "idle"
  /\ op' = "chat" /\ provider' = p /\ messages' = msgs /\ config' = cfg
  /\ IF getAdapter(p).found
     THEN AdapterEntry(getAdapter(p).adapter, "chat", msgs, cfg)
     ELSE /\ cls' = "none" /\ invoked' = <<>> /\ requests' = <<>>
          /\ pc' = "raised"
          /\ result' = Raised(getAdapter(p).error)
  /\ UNCHANGED << adapters, answers, produced, events, transport, idle, yielded, out, net >>
  /\ UNCHANGED outsideCall

\* AIServiceManager.streamChat, up to the first await of the adapter
streamChat(p, msgs, cfg) ==
  /\ pc = "idle"
  /\ op' = "streamChat" /\ provider' = p /\ messages' = msgs /\ config' = cfg
  /\ IF ~getAdapter(p).found
     THEN /\ cls' = "none" /\ invoked' = <<>> /\ requests' = <<>>
          /\ pc' = "raised"
          /\ result' = Raised(getAdapter(p).error)
     ELSE IF ~HasStreamChat(getAdapter(p).adapter)
     THEN /\ cls' = getAdapter(p).adapter /\ invoked' = <<>> /\ requests' = <<>>
          /\ pc' = "raised"
          /\ result' = Raised(AIServiceError("does not support streaming", p, None))
     ELSE AdapterEntry(getAdapter(p).adapter, "streamChat", msgs, cfg)
  /\ UNCHANGED << adapters, answers, produced, events, transport, idle, yielded, out, net >>
  /\ UNCHANGED outsideCall

\* mutant: the dispatcher stops at the terminal chunk without passing it on
ManagerYieldDropsDone(chunks) == SelectSeq(chunks, LAMBDA ch : ~ch.done)

\* `yield*` of AIServiceManager.streamChat: what the caller receives of the
\* chunks the adapter yields
ManagerYield(chunks) == chunks

\* the two chunks OpenAIResponsesSimple.streamChat makes of chat's response
SimulatedStream(content) == << Chunk(content, FALSE), Chunk(<<>>, TRUE) >>

\* the vendor answers the pending request with a 2xx: a unary call gets the
\* completion `ds`, a streaming call gets the open stream
ResponseOk(ds) ==
  /\ pc = "awaitResponse"
  /\ answers' = Append(answers, NoError)
  /\ IF op = "chat" \/ cls = "OpenAIResponsesSimple"
     THEN LET outcome == ChatOutcome(cls, Flatten(ds))
          IN  /\ produced' = ds
              /\ UNCHANGED transport
              /\ IF outcome.kind = "error"
                 THEN /\ pc' = "raised"
                      /\ result' = Forward(Raised(IF op = "chat" THEN ChatCatch(cls, outcome.error)
                                                  ELSE StreamCatch(cls, outcome.error)))
                      /\ UNCHANGED << yielded, out >>
                 ELSE /\ pc' = "returned"
                      /\ IF op = "chat"
                         THEN /\ result' = Forward(outcome)
                              /\ UNCHANGED << yielded, out >>
                         ELSE /\ result' = NoResult
                              /\ yielded' = SimulatedStream(outcome.content)
                              /\ out' = ManagerYield(SimulatedStream(outcome.content))
     ELSE /\ ds = <<>>
          /\ transport' = "open"
          /\ pc' = "streaming"
          /\ UNCHANGED << produced, yielded, out, result >>
  /\ UNCHANGED << adapters, op, provider, cls, messages, config, requests, events,
                  idle, invoked, net >>
  /\ UNCHANGED outsideCall

\* the vendor rejects the pending request, or the connection fails: the request
\* is sent again without temperature, or the error is raised
ResponseError(e) ==
  /\ pc = "awaitResponse"
  /\ answers' = Append(answers, e)
  /\ IF RetriesAfter(cls, Len(requests), e)
     THEN /\ requests' = Append(requests, WithoutTemperature(Last(requests)))
          /\ UNCHANGED << pc, result >>
     ELSE /\ pc' = "raised"
          /\ result' = Forward(Raised(IF op = "chat" THEN ChatCatch(cls, e) ELSE StreamCatch(cls, e)))
          /\ UNCHANGED requests
  /\ UNCHANGED << adapters, op, provider, cls, messages, config, produced, events,
                  transport, idle, yielded, out, invoked, net >>
  /\ UNCHANGED outsideCall

\* ------------------------------------------------------- the vendor stream
Event(ty, t, f) == [type |-> ty, text |-> t, finish |-> f]

\* the events a vendor stream may deliver: chat-completion chunks with a
\* delta and a finish_reason, Gemini chunks with a text, Claude's typed events
VendorEvents(c) ==
  IF c = "ClaudeAdapter"
  THEN { Event("content_block_delta", t, FALSE) : t \in Deltas \cup { <<>> } }
         \cup { Event("message_stop", <<>>, TRUE), Event("ping", <<>>, FALSE) }
  ELSE IF c = "GeminiAdapter"
  THEN { Event("chunk", t, FALSE) : t \in Deltas \cup { <<>> } }
  ELSE { Event("chunk", t, f) : t \in Deltas \cup { <<>> }, f \in BOOLEAN }

\* what breaks a vendor stream after it was opened
StreamErrors ==
  { VendorError("", None, "ECONNRESET", ""),
    VendorError("overloaded", Some(529), "overloaded_error", "") }

\* mutant: the loop has no `break` after the terminal chunk
OnStreamEventNoBreak(c, ev) ==
  CASE c = "ClaudeAdapter" ->
         [emit |-> (IF ev.type = "content_block_delta"
                    THEN << Chunk(ev.text, FALSE) >> ELSE <<>>)
                   \o (IF ev.type = "message_stop"
                       THEN << Chunk(<<>>, TRUE) >> ELSE <<>>),
          stop |-> FALSE]
    [] c = "GeminiAdapter" ->
         [emit |-> IF ev.text # <<>> THEN << Chunk(ev.text, FALSE) >> ELSE <<>>,
          stop |-> FALSE]
    [] OTHER ->
         [emit |-> (IF ev.text # <<>> THEN << Chunk(ev.text, FALSE) >> ELSE <<>>)
                   \o (IF ev.finish THEN << Chunk(<<>>, TRUE) >> ELSE <<>>),
          stop |-> FALSE]

\* mutant: a chunk that carries a finish_reason yields the terminal chunk
\* only, its delta is dropped
OnStreamEventDropsLastDelta(c, ev) ==
  CASE c = "ClaudeAdapter" ->
         [emit |-> (IF ev.type = "content_block_delta"
                    THEN << Chunk(ev.text, FALSE) >> ELSE <<>>)
                   \o (IF ev.type = "message_stop"
                       THEN << Chunk(<<>>, TRUE) >> ELSE <<>>),
          stop |-> ev.type = "message_stop"]
    [] c = "GeminiAdapter" ->
         [emit |-> IF ev.text # <<>> THEN << Chunk(ev.text, FALSE) >> ELSE <<>>,
          stop |-> FALSE]
    [] OTHER ->
         [emit |-> IF ev.finish THEN << Chunk(<<>>, TRUE) >>
                   ELSE IF ev.text # <<>> THEN << Chunk(ev.text, FALSE) >> ELSE <<>>,
          stop |-> ev.finish]

\* the body of the `for await` loop: the chunks yielded for one vendor event,
\* and whether the loop is left by `break`
OnStreamEvent(c, ev) ==
  CASE c = "ClaudeAdapter" ->
         [emit |-> (IF ev.type = "content_block_delta"
                    THEN << Chunk(ev.text, FALSE) >> ELSE <<>>)
                   \o (IF ev.type = "message_stop"
                       THEN << Chunk(<<>>, TRUE) >> ELSE <<>>),
          stop |-> ev.type = "message_stop"]
    [] c = "GeminiAdapter" ->
         [emit |-> IF ev.text # <<>> THEN << Chunk(ev.text, FALSE) >> ELSE <<>>,
          stop |-> FALSE]
    [] OTHER ->
         [emit |-> (IF ev.text # <<>> THEN << Chunk(ev.text, FALSE) >> ELSE <<>>)
                   \o (IF ev.finish THEN << Chunk(<<>>, TRUE) >> ELSE <<>>),
          stop |-> ev.finish]

\* what follows the loop when the vendor stream ends: only Gemini yields the
\* terminal chunk there
OnStreamEnd(c) == IF c = "GeminiAdapter" THEN << Chunk(<<>>, TRUE) >> ELSE <<>>

\* the vendor stream delivers an event and the loop body runs
StreamEvent(ev) ==
  /\ pc = "streaming"
  /\ Len(events) < MaxEvents
  /\ ev \in VendorEvents(cls)
  /\ events' = Append(events, ev)
  /\ produced' = IF ev.text # <<>> THEN Append(produced, ev.text) ELSE produced
  /\ idle' = 0
  /\ yielded' = yielded \o OnStreamEvent(cls, ev).emit
  /\ out' = out \o ManagerYield(OnStreamEvent(cls, ev).emit)
  /\ IF OnStreamEvent(cls, ev).stop
     THEN pc' = "returned" /\ transport' = "released"
     ELSE UNCHANGED << pc, transport >>
  /\ UNCHANGED << adapters, op, provider, cls, messages, config, requests, answers,
                  invoked, net, result >>
  /\ UNCHANGED outsideCall

\* the vendor stream ends: the loop is left and the generator returns
StreamClose ==
  /\ pc = "streaming"
  /\ transport' = "ended"
  /\ yielded' = yielded \o OnStreamEnd(cls)
  /\ out' = out \o ManagerYield(OnStreamEnd(cls))
  /\ pc' = "returned"
  /\ UNCHANGED << adapters, op, provider, cls, messages, config, requests, answers,
                  produced, events, idle, invoked, net, result >>
  /\ UNCHANGED outsideCall

\* the vendor stream throws: the catch block of streamChat runs
StreamError(e) ==
  /\ pc = "streaming"
  /\ transport' = "failed"
  /\ pc' = "raised"
  /\ result' = Forward(Raised(StreamCatch(cls, e)))
  /\ UNCHANGED << adapters, op, provider, cls, messages, config, requests, answers,
                  produced, events, idle, yielded, out, invoked, net >>
  /\ UNCHANGED outsideCall

\* the vendor stream stays silent for TickMs: the generator stays suspended in
\* `for await`, no adapter sets a timer
Tick ==
  /\ pc = "streaming"
  /\ idle <= StreamTimeoutMs
  /\ idle' = idle + TickMs
  /\ UNCHANGED << adapters, op, provider, cls, messages, config, pc, requests, answers,
                  produced, events, transport, yielded, out, invoked, net, result >>
  /\ UNCHANGED outsideCall

\* the HTTP client of the streaming route goes away while the route is in its
\* `for await` over streamChat: the route has no 'close' listener and hands
\* the adapter no abort signal, so nothing but the flag changes
Disconnect ==
  /\ pc = "streaming"
  /\ client = "connected"
  /\ client' = "disconnected"
  /\ UNCHANGED << managerVars, calls, routeVars, databaseVars >>

\* ------------------------------------------------------------ the probes
\* what a probe of the vendor can meet: the credential is accepted or not, the
\* host of config.baseUrl and the vendor's own host are up or not, and a 2xx
\* body lists models, lists none, is no JSON, or is JSON of another shape
Nets ==
  [credentialOk : BOOLEAN, configUrlUp : BOOLEAN, vendorUrlUp : BOOLEAN,
   body : {"models", "empty", "not json", "other json"}]

\* the host a request goes to: createClient and Ollama use
\* `config.baseUrl || <default>`, Claude's and Gemini's probes a fixed URL
HostUp(c, cfg, n) ==
  IF c \in {"ClaudeAdapter", "GeminiAdapter"} \/ cfg.baseUrl = None
  THEN n.vendorUrlUp
  ELSE n.configUrlUp

\* fetch(url): "throws" when the host is down, else the HTTP status class;
\* Ollama's /api/tags takes no credential
Fetch(c, cfg, n) ==
  IF ~HostUp(c, cfg, n) THEN "throws"
  ELSE IF c # "OllamaAdapter" /\ ~n.credentialOk THEN "401"
  ELSE "200"

\* client.models.list() of the OpenAI SDK: it throws on a connection failure,
\* a non-2xx status and an unparsable body, and gives a page whose data is
\* empty when the JSON has no data array
SdkModelsList(c, cfg, n) ==
  IF Fetch(c, cfg, n) # "200" \/ n.body = "not json" THEN "throws"
  ELSE IF n.body = "models" THEN "models"
  ELSE "no models"

SdkAdapters == {"OpenAIAdapter", "OpenAIResponsesAdapter", "OpenAIResponsesSimple", "QwenAdapter"}

\* XAIAdapter.testConnection: every failure is false
XAITestConnection(cfg, n) ==
  n.credentialOk /\ HostUp("XAIAdapter", cfg, n) /\ n.body \in {"models", "empty"}

\* testConnection of each adapter
AdapterTestConnection(c, cfg, n) ==
  CASE c \in SdkAdapters -> SdkModelsList(c, cfg, n) # "throws"
    [] c \in {"ClaudeAdapter", "GeminiAdapter", "OllamaAdapter"} -> Fetch(c, cfg, n) = "200"
    [] OTHER -> XAITestConnection(cfg, n)

\* AIServiceManager.testConnection: getAdapter and the adapter's probe inside
\* one try, whose catch returns false
testConnection(p, cfg, n) ==
  /\ pc = "idle"
  /\ op' = "testConnection" /\ provider' = p /\ config' = cfg /\ net' = n
  /\ pc' = "returned"
  /\ IF getAdapter(p).found
     THEN /\ cls' = getAdapter(p).adapter
          /\ invoked' = << <<getAdapter(p).adapter, "testConnection">> >>
          /\ result' = ReturnedFlag(AdapterTestConnection(getAdapter(p).adapter, cfg, n))
     ELSE /\ cls' = "none" /\ invoked' = <<>>
          /\ result' = ReturnedFlag(FALSE)
  /\ UNCHANGED << adapters, messages, requests, answers, produced, events, transport,
                  idle, yielded, out >>
  /\ UNCHANGED outsideCall

VendorList == << "vendor model" >>
DefaultList == << "default model" >>

\* XAIAdapter.getAvailableModels: a failed listing raises
XAIGetAvailableModels(cfg, n) ==
  IF ~XAITestConnection(cfg, n)
  THEN Raised(AIServiceError("listing failed", "xai", IF HostUp("XAIAdapter", cfg, n) /\ ~n.credentialOk THEN Some(401) ELSE None))
  ELSE ReturnedList(IF n.body = "models" THEN VendorList ELSE <<>>)

\* getAvailableModels of each adapter
AdapterGetAvailableModels(c, cfg, n) ==
  CASE c \in {"OpenAIAdapter", "QwenAdapter"} ->
         IF SdkModelsList(c, cfg, n) = "throws"
         THEN Raised(AIServiceError("listing failed", ProviderOf(c),
                                    IF Fetch(c, cfg, n) = "401" THEN Some(401) ELSE None))
         ELSE ReturnedList(IF SdkModelsList(c, cfg, n) = "models" THEN VendorList ELSE DefaultList)
    [] c = "OpenAIResponsesSimple" ->
         IF SdkModelsList(c, cfg, n) = "throws"
         THEN Raised(AIServiceError("listing failed", ProviderOf(c),
                                    IF Fetch(c, cfg, n) = "401" THEN Some(401) ELSE None))
         ELSE ReturnedList(IF SdkModelsList(c, cfg, n) = "models" THEN VendorList ELSE <<>>)
    [] c = "OpenAIResponsesAdapter" ->
         IF SdkModelsList(c, cfg, n) = "throws"
         THEN ReturnedList(<<>>)
         ELSE ReturnedList(IF SdkModelsList(c, cfg, n) = "models" THEN VendorList ELSE <<>>)
    [] c = "ClaudeAdapter" ->
         IF Fetch(c, cfg, n) # "200" \/ n.body = "not json"
         THEN Raised(AIServiceError("listing failed", "claude", None))
         ELSE ReturnedList(IF n.body = "models" THEN VendorList ELSE DefaultList)
    [] c = "GeminiAdapter" ->
         IF Fetch(c, cfg, n) = "401"
         THEN Raised(AIServiceError("listing failed", "gemini", Some(401)))
         ELSE IF Fetch(c, cfg, n) = "throws" \/ n.body = "not json"
         THEN Raised(AIServiceError("listing failed", "gemini", None))
         ELSE ReturnedList(IF n.body = "models" THEN VendorList ELSE DefaultList)
    [] c = "OllamaAdapter" ->
         IF Fetch(c, cfg, n) = "throws" \/ n.body = "not json"
         THEN Raised(AIServiceError("listing failed", "ollama", None))
         ELSE ReturnedList(IF n.body = "models" THEN VendorList ELSE DefaultList)
    [] OTHER -> XAIGetAvailableModels(cfg, n)

\* AIServiceManager.getAvailableModels
getAvailableModels(p, cfg, n) ==
  /\ pc = "idle"
  /\ op' = "getAvailableModels" /\ provider' = p /\ config' = cfg /\ net' = n
  /\ IF getAdapter(p).found
     THEN /\ cls' = getAdapter(p).adapter
          /\ invoked' = << <<getAdapter(p).adapter, "getAvailableModels">> >>
          /\ result' = Forward(AdapterGetAvailableModels(getAdapter(p).adapter, cfg, n))
          /\ pc' = IF AdapterGetAvailableModels(getAdapter(p).adapter, cfg, n).kind = "error"
                   THEN "raised" ELSE "returned"
     ELSE /\ cls' = "none" /\ invoked' = <<>>
          /\ result' = Raised(getAdapter(p).error)
          /\ pc' = "raised"
  /\ UNCHANGED << adapters, messages, requests, answers, produced, events, transport,
                  idle, yielded, out >>
  /\ UNCHANGED outsideCall

\* ------------------------------------------------------- the validation
\* the configs handed to validateConfig: temperature and topP in tenths
ValidateConfigs ==
  { [model |-> mo, temperature |-> t, maxTokens |-> m, topP |-> tp, apiKey |-> k, baseUrl |-> u,
     previousResponseId |-> None] :
      mo \in {"m", ""}, t \in {None, Some(3), Some(7), Some(15), Some(50)},
      m \in {None, Some(0), Some(100), Some(100000)}, tp \in {None, Some(5), Some(10), Some(20)},
      k \in {"", "key"}, u \in {None, Some("custom")} }

\* errors.push(e) under a condition
Push(cond, e) == IF cond THEN << e >> ELSE <<>>

\* `x !== undefined && (x < lo || x > hi)`
OutOfRange(x, lo, hi) == x # None /\ (x[1] < lo \/ x[1] > hi)

\* `x !== undefined && x <= 0`
NotPositive(x) == x # None /\ x[1] <= 0

\* validateConfig of the revision that registers Qwen: one range for all vendors
validateConfigCommon(p, cfg) ==
  Push(cfg.model = "", "model")
  \o (CASE p \in {"openai", "claude", "gemini", "xai", "qwen"} -> Push(cfg.apiKey = "", "apiKey")
        [] p = "ollama" -> Push(cfg.baseUrl = None, "baseUrl")
        [] OTHER -> <<>>)
  \o Push(OutOfRange(cfg.temperature, 0, 20), "temperature")
  \o Push(NotPositive(cfg.maxTokens), "maxTokens")

\* validateConfig of the revision with the ranges of each vendor
validateConfigPerVendor(p, cfg) ==
  Push(cfg.model = "", "model")
  \o (CASE p \in {"openai", "openai-responses"} ->
             Push(cfg.apiKey = "", "apiKey")
             \o Push(OutOfRange(cfg.temperature, 0, 20), "temperature")
             \o Push(NotPositive(cfg.maxTokens) \/ OutOfRange(cfg.maxTokens, 0, 4096), "maxTokens")
             \o Push(OutOfRange(cfg.topP, 0, 10), "topP")
        [] p = "claude" ->
             Push(cfg.apiKey = "", "apiKey")
             \o Push(OutOfRange(cfg.temperature, 0, 10), "temperature")
             \o Push(NotPositive(cfg.maxTokens) \/ OutOfRange(cfg.maxTokens, 0, 8192), "maxTokens")
             \o Push(OutOfRange(cfg.topP, 0, 10), "topP")
             \o Push(cfg.temperature # None /\ cfg.topP # None, "temperature and topP")
        [] p = "gemini" ->
             Push(cfg.apiKey = "", "apiKey")
             \o Push(OutOfRange(cfg.temperature, 0, 20), "temperature")
             \o Push(NotPositive(cfg.maxTokens) \/ OutOfRange(cfg.maxTokens, 0, 65536), "maxTokens")
             \o Push(OutOfRange(cfg.topP, 0, 10), "topP")
        [] p = "xai" ->
             Push(cfg.apiKey = "", "apiKey")
             \o Push(OutOfRange(cfg.temperature, 0, 10), "temperature")
             \o Push(NotPositive(cfg.maxTokens) \/ OutOfRange(cfg.maxTokens, 0, 4096), "maxTokens")
             \o Push(OutOfRange(cfg.topP, 0, 10), "topP")
        [] p = "ollama" ->
             Push(cfg.baseUrl = None, "baseUrl")
             \o Push(OutOfRange(cfg.temperature, 0, 20), "temperature")
             \o Push(NotPositive(cfg.maxTokens), "maxTokens")
             \o Push(OutOfRange(cfg.topP, 0, 10), "topP")
        [] OTHER -> <<>>)

\* the errors of validateConfig in the revision of the running dispatcher: the
\* one that registers Qwen has the common ranges
validateConfigErrors(p, cfg) ==
  IF "qwen" \in DOMAIN adapters
  THEN validateConfigCommon(p, cfg)
  ELSE validateConfigPerVendor(p, cfg)

\* { valid: errors.length === 0, errors }
Validation(errors) == Result("value", <<>>, errors = <<>>, errors, NoError)

\* AIServiceManager.validateConfig: it reads the config and no adapter
validateConfig(p, cfg) ==
  /\ pc = "idle"
  /\ op' = "validateConfig" /\ provider' = p /\ config' = cfg
  /\ cls' = "none" /\ invoked' = <<>>
  /\ result' = Validation(validateConfigErrors(p, cfg))
  /\ pc' = "returned"
  /\ UNCHANGED << adapters, messages, requests, answers, produced, events, transport,
                  idle, yielded, out, net >>
  /\ UNCHANGED outsideCall

\* the answer of an HTTP route: its status and the `success` of its body
Response(status, success) == Result("response", <<>>, success, << status >>, NoError)

\* router.post('/test'): the checks of the request body, then the dispatcher's
\* testConnection and, when it is true, getAvailableModels, whose failure
\* is caught
postTest(p, cfg, n) ==
  /\ pc = "idle"
  /\ op' = "postTest" /\ provider' = p /\ config' = cfg /\ net' = n
  /\ pc' = "returned"
  /\ IF cfg.apiKey = "" \/ p \notin DOMAIN adapters \/ (p = "ollama" /\ cfg.baseUrl = None)
     THEN /\ cls' = "none" /\ invoked' = <<>>
          /\ result' = Response("400", FALSE)
     ELSE /\ cls' = adapters[p]
          /\ IF AdapterTestConnection(adapters[p], cfg, n)
             THEN /\ invoked' = << <<adapters[p], "testConnection">>,
                                   <<adapters[p], "getAvailableModels">> >>
                  /\ result' = Response("200", TRUE)
             ELSE /\ invoked' = << <<adapters[p], "testConnection">> >>
                  /\ result' = Response("400", FALSE)
  /\ UNCHANGED << adapters, messages, requests, answers, produced, events, transport,
                  idle, yielded, out >>
  /\ UNCHANGED outsideCall

\* PROVIDER_LIMITS of the parameters panel: the maxima of each vendor, with
\* temperature and topP in tenths (every minimum is 0, that of maxTokens is 1)
PROVIDER_LIMITS(p) ==
  CASE p = "openai" -> [temperature |-> 20, maxTokens |-> 4096, topP |-> 10]
    [] p = "claude" -> [temperature |-> 10, maxTokens |-> 8192, topP |-> 10]
    [] p = "gemini" -> [temperature |-> 20, maxTokens |-> 65536, topP |-> 10]
    [] p = "xai" -> [temperature |-> 10, maxTokens |-> 4096, topP |-> 10]
    [] p = "ollama" -> [temperature |-> 20, maxTokens |-> 65536, topP |-> 10]

\* ------------------------------------------------------ the specification
Next ==
  \/ /\ pc = "idle"
     /\ \E p \in ProviderIds, msgs \in MessageLists, cfg \in ChatConfigs : chat(p, msgs, cfg)
  \/ /\ pc = "idle"
     /\ \E p \in ProviderIds, msgs \in MessageLists, cfg \in ChatConfigs : streamChat(p, msgs, cfg)
  \/ /\ pc = "idle"
     /\ \E p \in ProviderIds, cfg \in ProbeConfigs, n \in Nets : testConnection(p, cfg, n)
  \/ /\ pc = "idle"
     /\ \E p \in ProviderIds, cfg \in ProbeConfigs, n \in Nets : getAvailableModels(p, cfg, n)
  \/ /\ pc = "idle"
     /\ \E p \in ProviderIds, cfg \in ValidateConfigs : validateConfig(p, cfg)
  \/ /\ pc = "idle"
     /\ \E p \in ProviderIds, cfg \in ProbeConfigs, n \in Nets : postTest(p, cfg, n)
  \/ /\ pc = "awaitResponse"
     /\ \E ds \in Completions : ResponseOk(ds)
  \/ /\ pc = "awaitResponse"
     /\ \E e \in VendorErrors : ResponseError(e)
  \/ /\ pc = "streaming"
     /\ \E ev \in VendorEvents(cls) : StreamEvent(ev)
  \/ StreamClose
  \/ /\ pc = "streaming"
     /\ \E e \in StreamErrors : StreamError(e)
  \/ Tick

Spec == Init /\ [][Next]_vars

\* --------------------------------- the specification of message conversion
\* chat and streamChat of the adapters that convert the message list, up to
\* the vendor request, for every message list of up to MaxMessages messages
Contents == { <<>>, <<"x">>, <<"y">> }
InputMessages ==
  SeqsUpTo({ Msg(r, t) : r \in {"system", "user", "assistant"}, t \in Contents }, MaxMessages)

NextMessages ==
  \/ /\ pc = "idle"
     /\ \E p \in {"claude", "gemini"}, msgs \in InputMessages :
          chat(p, msgs, Config(None, None, "key", None))
  \/ /\ pc = "idle"
     /\ \E p \in {"claude", "gemini"}, msgs \in InputMessages :
          streamChat(p, msgs, Config(None, None, "key", None))

SpecMessages == Init /\ [][NextMessages]_vars

\* ------------------------------------------------------------- the claims
\* the adapters that read a vendor stream
StreamingAdapters ==
  {"OpenAIAdapter", "ClaudeAdapter", "GeminiAdapter", "QwenAdapter", "OllamaAdapter"}

IsDone(ch) == ch.done
NotDone(ch) == ~ch.done
HasText(ch) == ~ch.done /\ ch.content # <<>>

\* the number of chunks with done = true
DoneCount(chunks) == Len(SelectSeq(chunks, IsDone))

\* the contents of the chunks with done = false that carry text, in order
TextDeltas(chunks) ==
  LET q == SelectSeq(chunks, HasText) IN [i \in 1..Len(q) |-> q[i].content]

\* the concatenation of the contents of the chunks with done = false
ConcatNonFinal(chunks) ==
  LET q == SelectSeq(chunks, NotDone) IN Flatten([i \in 1..Len(q) |-> q[i].content])

\* C1: a streamChat call of a streaming adapter whose vendor stream has thrown
\* has ended normally, and the caller has received exactly one chunk with
\* done = true, the last one: the transport error became the terminal chunk
\* and was not raised.
C1_TransportErrorBecomesTerminalChunk ==
  (op = "streamChat" /\ cls \in StreamingAdapters /\ transport = "failed")
    => /\ pc = "returned"
       /\ DoneCount(out) = 1
       /\ Last(out).done

\* C2: when a streamChat call of a streaming adapter has ended without error,
\* after a stop reason or after the vendor stream simply ended, the last chunk
\* the caller received has done = true.
C2_LastChunkIsDone ==
  (op = "streamChat" /\ cls \in StreamingAdapters /\ pc = "returned")
    => (out # <<>> /\ Last(out).done)

\* C3: in the chunks of one streamChat call, those the adapter yielded and
\* those the caller received from the dispatcher, only the last chunk can have
\* done = true: at most one has it, all before it have done = false, none
\* follows it.
C3_DoneOnlyLast ==
  /\ \A i \in 1..Len(yielded) : yielded[i].done => i = Len(yielded)
  /\ \A i \in 1..Len(out) : out[i].done => i = Len(out)

\* C3 witness: a call that read vendor events yielded text and then the
\* terminal chunk
C3_Witness ==
  /\ op = "streamChat" /\ cls = "QwenAdapter" /\ pc = "returned"
  /\ Len(events) >= 2
  /\ Len(out) = 3 /\ out[3].done /\ ~out[1].done /\ ~out[2].done

\* C4: a streamChat call is never still waiting for the vendor stream once
\* the stream has been silent for longer than the stall interval: by then the
\* adapter has released the transport and yielded the terminal chunk.
C4_StallEndsTheCall ==
  (op = "streamChat" /\ cls \in StreamingAdapters /\ idle > StreamTimeoutMs)
    => /\ pc = "returned"
       /\ transport = "released"
       /\ out # <<>> /\ Last(out).done

C6_RetryWithoutTemperature ==
  (op = "chat" /\ cls = "OpenAIAdapter" /\ Len(answers) >= 1
     /\ answers[1].code = "unsupported_value" /\ answers[1].param = "temperature")
    => /\ Len(requests) = 2
       /\ requests[1].temperature # None
       /\ requests[2].temperature = None
       /\ \A f \in DOMAIN requests[1] \ {"temperature"} : requests[2][f] = requests[1][f]
       /\ (Len(answers) = 2 /\ answers[2] = NoError /\ produced # <<>>)
            => /\ pc = "returned"
               /\ result.kind = "value"
               /\ result.content = Flatten(produced)

\* C6 witness: the retry was answered with a completion and chat returned it
C6_Witness ==
  /\ op = "chat" /\ cls = "OpenAIAdapter" /\ pc = "returned"
  /\ Len(answers) = 2 /\ answers[1] = UnsupportedTemperature /\ answers[2] = NoError
  /\ result.kind = "value" /\ result.content # <<>>

\* C7: one chat or streamChat call issues at most two vendor requests; a
\* second one only after the first was rejected for its temperature; any other
\* error of the first request, and any error of the second, is raised as an
\* AIServiceError and no request follows it.
C7_RetryIsNarrowAndBounded ==
  op \in {"chat", "streamChat"} =>
    /\ Len(requests) <= 2
    /\ Len(requests) = 2 =>
         (answers[1].code = "unsupported_value" /\ answers[1].param = "temperature")
    /\ (Len(answers) >= 1 /\ answers[1] # NoError
          /\ ~(answers[1].code = "unsupported_value" /\ answers[1].param = "temperature"))
         => (pc = "raised" /\ result.error.name = "AIServiceError" /\ Len(requests) = 1)
    /\ (Len(answers) = 2 /\ answers[2] # NoError)
         => (pc = "raised" /\ result.error.name = "AIServiceError" /\ Len(requests) = 2)

\* C7 witness: the retry itself failed and its error was raised
C7_Witness ==
  /\ op = "streamChat" /\ cls = "OpenAIAdapter" /\ pc = "raised"
  /\ Len(requests) = 2 /\ Len(answers) = 2 /\ answers[2] # NoError

\* the error getAdapter throws for an unregistered vendor id
IsUnsupportedVendor(r) ==
  /\ r.kind = "error"
  /\ r.error.name = "AIServiceError"
  /\ r.error.message = "unsupported provider"
  /\ r.error.provider = provider

\* C8 as claimed: each of the four dispatcher operations, called with a vendor
\* id that has no adapter, raises the unsupported-vendor error and invokes no
\* adapter method.
C8_UnregisteredVendorRaises ==
  (op # "none" /\ provider \notin DOMAIN adapters)
    => (pc = "raised" /\ IsUnsupportedVendor(result) /\ invoked = <<>>)

\* C8 amended: chat, streamChat and getAvailableModels called with a vendor id
\* that has no adapter raise the unsupported-vendor error; testConnection
\* returns false; none of the four invokes an adapter method or issues a
\* vendor request.
C8_UnregisteredVendor ==
  (op # "none" /\ provider \notin DOMAIN adapters)
    => /\ invoked = <<>> /\ requests = <<>> /\ cls = "none"
       /\ op \in {"chat", "streamChat", "getAvailableModels"}
            => (pc = "raised" /\ IsUnsupportedVendor(result))
       /\ op = "testConnection"
            => (pc = "returned" /\ result.kind = "value" /\ result.flag = FALSE)

\* C8 witness: testConnection for the vendor id the registry lacks
C8_Witness ==
  /\ op = "testConnection" /\ provider = "qwen" /\ "qwen" \notin DOMAIN adapters
  /\ pc = "returned"

C10_TestConnectionFalseOnFailure ==
  op = "testConnection" =>
    /\ pc = "returned" /\ result.kind = "value"
    /\ ( \/ (cls # "OllamaAdapter" /\ ~net.credentialOk)
         \/ (config.baseUrl # None /\ ~net.configUrlUp)
         \/ net.body \in {"not json", "other json"} )
         => result.flag = FALSE

\* C11: getAvailableModels of an adapter whose listing request failed, by a
\* transport failure or a rejected credential, has raised an AIServiceError:
\* it never returns a list then.
C11_ListingFailureRaises ==
  (op = "getAvailableModels" /\ cls # "none" /\ Fetch(cls, config, net) # "200")
    => (pc = "raised" /\ result.kind = "error" /\ result.error.name = "AIServiceError")

\* C12: a chat call that has ended either returned an AIResponse with
\* non-empty content after a 2xx answer, or raised an AIServiceError whose
\* provider is the adapter's vendor id and whose statusCode is the HTTP status
\* of the vendor's error when it had one.
C12_ChatTwoOutcomes ==
  (op = "chat" /\ cls # "none" /\ pc \in {"returned", "raised"}) =>
    \/ /\ pc = "returned"
       /\ result.kind = "value" /\ result.content # <<>>
       /\ answers # <<>> /\ Last(answers) = NoError
    \/ /\ pc = "raised"
       /\ result.kind = "error" /\ result.error.name = "AIServiceError"
       /\ result.error.provider = ProviderOf(cls)
       /\ (answers # <<>> /\ Last(answers) # NoError)
            => result.error.statusCode = Last(answers).status

\* the distinct strings of an errors list
Distinct(errors) == { errors[i] : i \in 1..Len(errors) }

\* C13: no chat or streamChat call of the dispatcher whose config validateConfig
\* rejects invokes an adapter or issues a vendor request.
C13_ValidationPrecedesDispatch ==
  (op \in {"chat", "streamChat"} /\ validateConfigErrors(provider, config) # <<>>)
    => (invoked = <<>> /\ requests = <<>>)

\* C14: for a registered vendor that requires a credential, validateConfig of a
\* config with temperature 5.0 and an empty apiKey returns valid = false with
\* at least two distinct error strings.
C14_AllViolationsReported ==
  (op = "validateConfig" /\ provider \in DOMAIN adapters /\ provider # "ollama"
     /\ config.temperature = Some(50) /\ config.apiKey = "")
    => (~result.flag /\ Cardinality(Distinct(result.list)) >= 2)

\* C15: validateConfig returns valid = true only for a vendor id that is
\* registered and, unless the vendor is ollama, a non-empty apiKey.
C15_ValidOnlyIfRegisteredWithCredential ==
  (op = "validateConfig" /\ result.flag)
    => /\ provider \in DOMAIN adapters
       /\ provider # "ollama" => config.apiKey # ""

\* C16: for a registered vendor, validateConfig returns valid = false whenever
\* the temperature, topP or maxTokens of the config lies outside the vendor's
\* range.
C16_OutOfRangeRejected ==
  (op = "validateConfig" /\ provider \in DOMAIN adapters
     /\ provider \in {"openai", "openai-responses", "claude", "gemini", "xai", "ollama"}) =>
    LET limits == PROVIDER_LIMITS(IF provider = "openai-responses" THEN "openai" ELSE provider)
    IN  ( \/ OutOfRange(config.temperature, 0, limits.temperature)
          \/ OutOfRange(config.topP, 0, limits.topP)
          \/ OutOfRange(config.maxTokens, 1, limits.maxTokens) )
          => ~result.flag

\* C17: for vendor claude, validateConfig of a config whose temperature and topP
\* are both set to non-default values returns valid = false with the error
\* that names the combination.
C17_ClaudeRejectsTemperatureWithTopP ==
  (op = "validateConfig" /\ provider = "claude"
     /\ config.temperature \notin {None, Some(DefaultTemperature)}
     /\ config.topP \notin {None, Some(10)})
    => (~result.flag /\ "temperature and topP" \in Distinct(result.list))

\* C18: for vendor ollama with an empty apiKey, validateConfig of an otherwise
\* valid config returns valid = true, and the connection test of such a config
\* reaches OllamaAdapter.testConnection instead of being rejected.
C18_OllamaNeedsNoCredential ==
  /\ (op = "validateConfig" /\ provider = "ollama" /\ config.apiKey = ""
        /\ config.model # "" /\ config.baseUrl # None
        /\ ~OutOfRange(config.temperature, 0, 20) /\ ~OutOfRange(config.topP, 0, 10)
        /\ ~NotPositive(config.maxTokens))
       => result.flag
  /\ (op = "postTest" /\ provider = "ollama" /\ config.apiKey = "" /\ config.baseUrl # None)
       => (invoked # <<>> /\ invoked[1] = << "OllamaAdapter", "testConnection" >>)

\* the contents of the system messages of a list
SystemContents(msgs) == { msgs[i].content : i \in { j \in 1..Len(msgs) : IsSystem(msgs[j]) } }

\* the non-system messages of a list, in order, with the roles of Gemini
GeminiTurns(msgs) ==
  LET turns == SelectSeq(msgs, NotSystem)
  IN  [i \in 1..Len(turns) |->
         Msg(IF turns[i].role = "assistant" THEN "model" ELSE "user", turns[i].content)]

\* C19: message conversion partitions the input. For Gemini the history holds
\* no system message and is the list of the non-system messages in their order
\* with assistant mapped to model; for Claude the messages are the non-system
\* messages in their order; the system field is the content of a system
\* message of the input, never that of a turn, and it is the content of the
\* system message when the input has one whose content is not empty; the
\* request of the call carries that system field.
C19_ConversionPartitions ==
  /\ (op \in {"chat", "streamChat"} /\ cls = "GeminiAdapter") =>
       LET conv == GeminiConvertMessages(messages)
       IN  /\ \A i \in 1..Len(conv.history) : conv.history[i].role \in {"user", "model"}
           /\ conv.history = GeminiTurns(messages)
           /\ conv.systemInstruction # None => conv.systemInstruction[1] \in SystemContents(messages)
           /\ \A t \in Contents \ { <<>> } :
                SystemContents(messages) = { t } => conv.systemInstruction = Some(t)
           /\ requests # <<>> => requests[1].system = conv.systemInstruction
  /\ (op \in {"chat", "streamChat"} /\ cls = "ClaudeAdapter") =>
       LET conv == ClaudeConvertMessages(messages)
       IN  /\ \A i \in 1..Len(conv.messages) : conv.messages[i].role # "system"
           /\ conv.messages = SelectSeq(messages, NotSystem)
           /\ conv.system # None => conv.system[1] \in SystemContents(messages)
           /\ \A t \in Contents \ { <<>> } :
                SystemContents(messages) = { t } => conv.system = Some(t)
           /\ requests # <<>> => /\ requests[1].messages = conv.messages
                                 /\ conv.system \notin {None, Some(<<>>)}
                                      => requests[1].system = conv.system

\* C19 witness: the system message of [system "x", user "y"] is the system
\* instruction of the Gemini request and the history has the user turn only
C19_Witness ==
  /\ op = "chat" /\ cls = "GeminiAdapter"
  /\ messages = << Msg("system", <<"x">>), Msg("user", <<"y">>) >>
  /\ requests # <<>>
  /\ requests[1].system = Some(<<"x">>)
  /\ GeminiConvertMessages(messages).history = << Msg("user", <<"y">>) >>

\* C20: GeminiAdapter.chat and streamChat hand the vendor the whole
\* conversation: the turn history of the request followed by the message sent
\* is the list of the non-system input messages, each once, in order.
C20_GeminiSendsFullHistory ==
  (op \in {"chat", "streamChat"} /\ cls = "GeminiAdapter" /\ requests # <<>>)
    => /\ requests[1].message # None
       /\ requests[1].messages \o << Msg("user", requests[1].message[1]) >>
            = GeminiTurns(messages)

\* C21: the first vendor request of a chat or streamChat call carries the
\* temperature and the maxTokens of the caller's config exactly when the
\* caller set them, with the caller's value, and omits them otherwise.
C21_ParametersAsTheCallerSetThem ==
  (op \in {"chat", "streamChat"} /\ requests # <<>>)
    => /\ requests[1].temperature = config.temperature
       /\ requests[1].max_tokens = config.maxTokens

DefaultModel(p) ==
  CASE p \in {"openai", "openai-responses"} -> "gpt-4o"
    [] p = "claude" -> "claude-3-5-sonnet-20241022"
    [] p = "gemini" -> "gemini-2.5-pro"
    [] p = "xai" -> "grok-2-1212"
    [] p = "ollama" -> "llama3.3"
    [] OTHER -> "qwen-max"

\* `baseUrl` of the vendor's entry of `defaults`
DefaultBaseUrl(p) ==
  CASE p \in {"openai", "openai-responses"} -> "https://api.openai.com/v1"
    [] p = "claude" -> "https://api.anthropic.com"
    [] p = "gemini" -> "https://generativelanguage.googleapis.com"
    [] p = "xai" -> "https://api.x.ai/v1"
    [] p = "ollama" -> "http://localhost:11434/v1"
    [] OTHER -> "https://dashscope.aliyuncs.com/compatible-mode/v1"

\* getDefaultConfig: `defaults[provider] || {}`; the manager that registers no
\* qwen adapter has no qwen entry in `defaults` either
getDefaultConfig(p) ==
  IF p \in AIProvider /\ (p = "qwen" => "qwen" \in DOMAIN adapters)
  THEN [model |-> Some(DefaultModel(p)), baseUrl |-> Some(DefaultBaseUrl(p))]
  ELSE [model |-> None, baseUrl |-> None]

\* C23: every value of AIProvider maps to a registered adapter whose provider
\* field is that value, and getDefaultConfig has a non-empty model and baseUrl
\* for it.
C23_AdapterForEveryVendor ==
  \A p \in AIProvider :
    /\ p \in DOMAIN adapters
    /\ ProviderOf(adapters[p]) = p
    /\ getDefaultConfig(p).model \notin {None, Some("")}
    /\ getDefaultConfig(p).baseUrl \notin {None, Some("")}

\* ------------------------------------- concurrent calls on the singleton
\* the arguments of the concurrent calls
ConcurrentArgs ==
  { [op |-> c[1], provider |-> c[2], messages |-> << Msg("user", <<"a">>) >>,
     config |-> Config(None, None, "key", None), net |-> NoNet] :
      c \in { <<"chat", "openai">>, <<"chat", "claude">>, <<"streamChat", "claude">>,
              <<"testConnection", "openai">>, <<"getAvailableModels", "claude">> } }

\* the events read of one stream while other calls run
MaxStreamed == 1

\* what the vendor delivers to an await of a call
Answer(k, ds, e, ev) == [kind |-> k, ds |-> ds, error |-> e, event |-> ev]
NoEvent == Event("", <<>>, FALSE)

\* mutant: the locals of the method are fields of the shared adapter, every
\* caller runs on those of the first
SharedFrame(cs, i) == cs[1].frame

\* the local variables (client, requestParams, response, stream) of the
\* method a caller is running: each invocation has its own
Frame(cs, i) == cs[i].frame

\* the synchronous part of a dispatcher method, from getAdapter to the first
\* await of the adapter
Entered(a) ==
  LET g == getAdapter(a.provider)
      c == g.adapter
      raised(e) == [IdleFrame EXCEPT !.cls = c, !.pc = "raised", !.result = Raised(e)]
  IN  CASE a.op = "testConnection" ->
             IF g.found THEN [IdleFrame EXCEPT !.cls = c, !.pc = "awaitProbe"]
             ELSE [IdleFrame EXCEPT !.pc = "returned", !.result = ReturnedFlag(FALSE)]
        [] a.op = "getAvailableModels" ->
             IF g.found THEN [IdleFrame EXCEPT !.cls = c, !.pc = "awaitProbe"]
             ELSE raised(g.error)
        [] OTHER ->
             IF ~g.found THEN raised(g.error)
             ELSE IF a.op = "streamChat" /\ ~HasStreamChat(c)
             THEN raised(AIServiceError("does not support streaming", a.provider, None))
             ELSE IF a.op = "streamChat" /\ c = "OpenAIResponsesAdapter"
             THEN raised(AIServiceError("streaming not supported", ProviderOf(c), None))
             ELSE IF c = "GeminiAdapter" /\ LastUserMessage(a.messages) = None
             THEN raised(IF a.op = "chat"
                         THEN ChatCatch(c, AIServiceError("No user message found", "gemini", None))
                         ELSE StreamCatch(c, AIServiceError("No user message found", "gemini", None)))
             ELSE [IdleFrame EXCEPT
                     !.cls = c, !.pc = "awaitResponse",
                     !.requests = << BuildRequest(c, a.messages, a.config, a.op = "streamChat") >>]

\* the continuation of the method after the await that the vendor answers
\* with r
Step(f, a, r) ==
  LET raised(e) == [f EXCEPT !.pc = "raised", !.result = Raised(e)]
      catch(e) == IF a.op = "chat" THEN ChatCatch(f.cls, e) ELSE StreamCatch(f.cls, e)
  IN  CASE r.kind = "probe" ->
             IF a.op = "testConnection"
             THEN [f EXCEPT !.pc = "returned",
                            !.result = ReturnedFlag(AdapterTestConnection(f.cls, a.config, a.net))]
             ELSE LET res == AdapterGetAvailableModels(f.cls, a.config, a.net)
                  IN  [f EXCEPT !.pc = IF res.kind = "error" THEN "raised" ELSE "returned",
                                !.result = res]
        [] r.kind = "ok" ->
             IF a.op = "chat" \/ f.cls = "OpenAIResponsesSimple"
             THEN LET outcome == ChatOutcome(f.cls, Flatten(r.ds))
                  IN  IF outcome.kind = "error" THEN raised(catch(outcome.error))
                      ELSE IF a.op = "chat" THEN [f EXCEPT !.pc = "returned", !.result = outcome]
                      ELSE [f EXCEPT !.pc = "returned",
                                     !.yielded = ManagerYield(SimulatedStream(outcome.content))]
             ELSE [f EXCEPT !.pc = "streaming"]
        [] r.kind = "error" ->
             IF RetriesAfter(f.cls, Len(f.requests), r.error)
             THEN [f EXCEPT !.requests = Append(@, WithoutTemperature(Last(@)))]
             ELSE raised(catch(r.error))
        [] r.kind = "event" ->
             [f EXCEPT !.events = Append(@, r.event),
                       !.yielded = @ \o ManagerYield(OnStreamEvent(f.cls, r.event).emit),
                       !.pc = IF OnStreamEvent(f.cls, r.event).stop THEN "returned" ELSE @]
        [] r.kind = "close" ->
             [f EXCEPT !.yielded = @ \o ManagerYield(OnStreamEnd(f.cls)), !.pc = "returned"]
        [] OTHER -> raised(StreamCatch(f.cls, r.error))

\* what the vendor may deliver to the await a call is suspended in
Expected(f, a) ==
  CASE f.pc = "awaitProbe" -> { Answer("probe", <<>>, NoError, NoEvent) }
    [] f.pc = "awaitResponse" ->
         { Answer("ok", ds, NoError, NoEvent) :
             ds \in IF a.op = "chat" THEN { <<>>, << <<"a">> >> } ELSE { <<>> } }
         \cup { Answer("error", <<>>, e, NoEvent) :
                  e \in IF a.op = "chat"
                        THEN { UnsupportedTemperature, VendorError("", None, "ECONNRESET", "") }
                        ELSE { VendorError("", None, "ECONNRESET", "") } }
    [] f.pc = "streaming" ->
         { Answer("event", <<>>, NoError, ev) :
             ev \in { x \in VendorEvents(f.cls) :
                      (x.text = <<"a">> \/ x.finish) /\ Len(f.events) < MaxStreamed } }
         \cup { Answer("close", <<>>, NoError, NoEvent),
                Answer("broken", <<>>, VendorError("", None, "ECONNRESET", ""), NoEvent) }
    [] OTHER -> {}

\* a caller calls chat, streamChat, testConnection or getAvailableModels of
\* the singleton while the calls of the others are suspended
Call(i, a) ==
  /\ calls[i].args.op = "none"
  /\ calls' = [calls EXCEPT ![i] = [args |-> a, heard |-> <<>>, frame |-> Entered(a)]]
  /\ UNCHANGED << managerVars, client, routeVars, databaseVars >>

\* the vendor answers the await of one of the suspended calls
Hear(i, r) ==
  /\ calls[i].args.op # "none"
  /\ r \in Expected(Frame(calls, i), calls[i].args)
  /\ calls' = [calls EXCEPT ![i].heard = Append(@, r),
                            ![i].frame = Step(Frame(calls, i), calls[i].args, r)]
  /\ UNCHANGED << managerVars, client, routeVars, databaseVars >>

NextConcurrent ==
  \/ \E i \in Callers, a \in ConcurrentArgs : Call(i, a)
  \/ \E i \in Callers :
       \E r \in Expected(Frame(calls, i), calls[i].args) : Hear(i, r)

SpecConcurrent == Init /\ [][NextConcurrent]_vars

\* the call run alone: the method entered with the caller's arguments and
\* continued with the answers the vendor gave to this call, in order
RECURSIVE Continue(_, _, _)
Continue(f, a, h) ==
  IF h = <<>> THEN f ELSE Continue(Step(f, a, h[1]), a, Tail(h))
Alone(c) == Continue(Entered(c.args), c.args, c.heard)

C24_Isolated ==
  \A i \in Callers : calls[i].args.op # "none" => calls[i].frame = Alone(calls[i])

NextAbandon ==
  \/ /\ pc = "idle"
     /\ \E p \in {"openai", "claude", "gemini"}, msgs \in MessageLists :
          streamChat(p, msgs, Config(None, None, "key", None))
  \/ /\ pc = "awaitResponse"
     /\ \E ds \in Completions : ResponseOk(ds)
  \/ /\ pc = "awaitResponse"
     /\ \E e \in VendorErrors : ResponseError(e)
  \/ /\ pc = "streaming"
     /\ \E ev \in VendorEvents(cls) : StreamEvent(ev)
  \/ StreamClose
  \/ /\ pc = "streaming"
     /\ \E e \in StreamErrors : StreamError(e)
  \/ Tick
  \/ Disconnect

SpecAbandon == Init /\ [][NextAbandon]_vars

\* C25: once the consumer of the stream has gone away (the client of the
\* streaming route has disconnected before the final chunk), no further
\* vendor event is read for the call.
C25_AbandonedStreamIsNotRead ==
  [][client = "disconnected" => events' = events]_vars

\* C26: when the input of a Claude or Gemini call holds several system
\* messages, the system field of the vendor request is the content of the
\* first of them in input order (no field when that content is empty).
C26_FirstSystemMessageWins ==
  (/\ op \in {"chat", "streamChat"} /\ cls \in {"ClaudeAdapter", "GeminiAdapter"}
   /\ requests # <<>>
   /\ Len(SelectSeq(messages, IsSystem)) > 1)
    => LET first == SelectSeq(messages, IsSystem)[1].content
       IN  requests[1].system = IF first = <<>> THEN None ELSE Some(first)

\* what the adapter's own chat or streamChat throws, given the vendor's
\* answers so far: its catch block applied to the error it met
AdapterThrows(c, o, reqs, ans, text) ==
  LET catch(e) == IF o = "chat" THEN ChatCatch(c, e) ELSE StreamCatch(c, e)
  IN  IF reqs = <<>>
      THEN IF c = "OpenAIResponsesAdapter" /\ o = "streamChat"
           THEN AIServiceError("streaming not supported", ProviderOf(c), None)
           ELSE catch(AIServiceError("No user message found", "gemini", None))
      ELSE IF ans # <<>> /\ Last(ans) # NoError /\ Len(ans) = Len(reqs)
      THEN catch(Last(ans))
      ELSE catch(ChatOutcome(c, text).error)

HistoryLimit == 20

\* the requests posted to one conversation
MaxPosts == 11

\* the n-th text the user sends, and what is stored as the assistant's turn:
\* the reply of the AI service, or the apology when the call has thrown
UserText(n) == <<"q", n>>
AssistantText(n, aiOk) == IF aiOk THEN <<"a", n>> ELSE <<"e", n>>

\* from('messages').select('role, content').eq('conversation_id', id)
\*   .order('created_at', { ascending: true }).limit(20):
\* the rows in creation order, cut after the first 20
HistoryQuery(rows) ==
  SubSeq(rows, 1, IF Len(rows) < HistoryLimit THEN Len(rows) ELSE HistoryLimit)

\* what both routes do with a message for an existing conversation of a
\* configured provider: insert the user message, query the history, hand it
\* to aiServiceManager, insert the reply or the apology
PostToConversation(aiOk) ==
  LET n == Len(SelectSeq(stored, IsUser)) + 1
      rows == Append(stored, Msg("user", UserText(n)))
  IN  /\ n <= MaxPosts
      /\ handed' = Some(HistoryQuery(rows))
      /\ stored' = Append(rows, Msg("assistant", AssistantText(n, aiOk)))
      /\ UNCHANGED << managerVars, client, calls, databaseVars >>

\* router.post('/conversations/:conversationId/messages')
postConversationMessage(aiOk) == PostToConversation(aiOk)

\* router.post('/') with the conversationId of the conversation
postChat(aiOk) == PostToConversation(aiOk)

NextRoutes ==
  \/ \E aiOk \in BOOLEAN : postConversationMessage(aiOk)
  \/ \E aiOk \in BOOLEAN : postChat(aiOk)

SpecRoutes == Init /\ [][NextRoutes]_vars

\* C28: the list a chat route hands to aiServiceManager ends with the user
\* message the request has just stored, and it is the most recent messages of
\* the conversation at that moment, in creation order.
C28_HistoryEndsWithNewMessage ==
  handed # None =>
    LET h == handed[1]
        rows == SubSeq(stored, 1, Len(stored) - 1)
    IN  /\ h # <<>>
        /\ Last(h) = rows[Len(rows)]
        /\ h = SubSeq(rows, Len(rows) - Len(h) + 1, Len(rows))

\* ------------------------------------------------------ the JSON database
\* a record of a table: its id and the number of updates it has had
Record(id, rev) == [id |-> id, rev |-> rev]
Ids(recs) == { r.id : r \in recs }

\* createInitialData: the demo rows pushed by the init run of request i (the
\* conversation and the message get a fresh uuid)
DemoRecords(i) == { Record(<<"demo", i>>, 0) }

\* request i moves on, everything else of its record stays
At(i, pos) == [dbreq EXCEPT ![i].pc = pos]

\* saveData: JSON.stringify(this.data) is taken when saveData is called, the
\* writeFile it is handed to completes later
SaveData(i, kind, recs) ==
  [dbreq EXCEPT ![i] = [pc |-> IF kind = "init" THEN "initSaving" ELSE "saving",
                        kind |-> kind, snapshot |-> recs]]

\* ensureDatabaseInitialized up to its first await: the flag is tested, and
\* init() is entered when it is not set
ensureDatabaseInitialized(i) ==
  /\ dbreq[i].pc = "start"
  /\ IF dbInitialized
     THEN dbreq' = At(i, "ready") /\ UNCHANGED initRuns
     ELSE dbreq' = At(i, "init") /\ initRuns' = initRuns + 1
  /\ UNCHANGED << dbInitialized, data, file >>
  /\ UNCHANGED << managerVars, client, calls, routeVars >>

\* init: fs.access(this.dbPath) has answered: loadData is entered when the
\* file exists, createInitialData when it does not
initAccess(i) ==
  /\ dbreq[i].pc = "init"
  /\ dbreq' = At(i, IF file # None THEN "loading" ELSE "creating")
  /\ UNCHANGED << dbInitialized, initRuns, data, file >>
  /\ UNCHANGED << managerVars, client, calls, routeVars >>

\* loadData: readFile has answered, this.data is replaced by the parsed file;
\* init returns and ensureDatabaseInitialized sets the flag
loadData(i) ==
  /\ dbreq[i].pc = "loading"
  /\ data' = file[1]
  /\ dbInitialized' = TRUE
  /\ dbreq' = At(i, "ready")
  /\ UNCHANGED << initRuns, file >>
  /\ UNCHANGED << managerVars, client, calls, routeVars >>

\* createInitialData after its await of bcrypt.hash, and the saveData call
\* that follows it
createInitialData(i) ==
  /\ dbreq[i].pc = "creating"
  /\ data' = data \cup DemoRecords(i)
  /\ dbreq' = SaveData(i, "init", data \cup DemoRecords(i))
  /\ UNCHANGED << dbInitialized, initRuns, file >>
  /\ UNCHANGED << managerVars, client, calls, routeVars >>

\* a writeFile completes: the file holds the snapshot it was handed. After
\* the one of init, ensureDatabaseInitialized sets the flag
writeFile(i) ==
  /\ dbreq[i].pc \in {"initSaving", "saving"}
  /\ file' = Some(dbreq[i].snapshot)
  /\ IF dbreq[i].pc = "initSaving"
     THEN dbInitialized' = TRUE /\ dbreq' = At(i, "ready")
     ELSE UNCHANGED dbInitialized /\ dbreq' = At(i, "done")
  /\ UNCHANGED << initRuns, data >>
  /\ UNCHANGED << managerVars, client, calls, routeVars >>

\* from(table).insert(record)
insert(i) ==
  /\ dbreq[i].pc = "ready"
  /\ data' = data \cup { Record(<<"row", i>>, 0) }
  /\ dbreq' = SaveData(i, "insert", data \cup { Record(<<"row", i>>, 0) })
  /\ UNCHANGED << dbInitialized, initRuns, file >>
  /\ UNCHANGED << managerVars, client, calls, routeVars >>

\* from(table).update(updates).eq(field, value)
update(i, id) ==
  /\ dbreq[i].pc = "ready"
  /\ IF id \in Ids(data)
     THEN LET old == CHOOSE r \in data : r.id = id
              new == (data \ { old }) \cup { Record(id, old.rev + 1) }
          IN  data' = new /\ dbreq' = SaveData(i, "update", new)
     ELSE UNCHANGED data /\ dbreq' = At(i, "done")
  /\ UNCHANGED << dbInitialized, initRuns, file >>
  /\ UNCHANGED << managerVars, client, calls, routeVars >>

\* from(table).delete().eq(field, value)
delete(i, id) ==
  /\ dbreq[i].pc = "ready"
  /\ IF id \in Ids(data)
     THEN LET new == { r \in data : r.id # id }
          IN  data' = new /\ dbreq' = SaveData(i, "delete", new)
     ELSE UNCHANGED data /\ dbreq' = At(i, "done")
  /\ UNCHANGED << dbInitialized, initRuns, file >>
  /\ UNCHANGED << managerVars, client, calls, routeVars >>

\* updateAIProviderConfig: the config of the user and provider is updated, or
\* created when there is none
updateAIProviderConfig(i) ==
  /\ dbreq[i].pc = "ready"
  /\ LET id == <<"config", 0>>
         new == IF id \in Ids(data)
                THEN LET old == CHOOSE r \in data : r.id = id
                     IN  (data \ { old }) \cup { Record(id, old.rev + 1) }
                ELSE data \cup { Record(id, 0) }
     IN  data' = new /\ dbreq' = SaveData(i, "updateAIProviderConfig", new)
  /\ UNCHANGED << dbInitialized, initRuns, file >>
  /\ UNCHANGED << managerVars, client, calls, routeVars >>

\* the ids a request may name: those in memory and one that is in no table
Targets == Ids(data) \cup { <<"missing", 0>> }

NextDatabase ==
  \/ \E i \in Requests : ensureDatabaseInitialized(i)
  \/ \E i \in Requests : initAccess(i)
  \/ \E i \in Requests : loadData(i)
  \/ \E i \in Requests : createInitialData(i)
  \/ \E i \in Requests : writeFile(i)
  \/ \E i \in Requests : insert(i)
  \/ \E i \in Requests, id \in Targets : update(i, id)
  \/ \E i \in Requests, id \in Targets : delete(i, id)
  \/ \E i \in Requests : updateAIProviderConfig(i)

SpecDatabase == Init /\ [][NextDatabase]_vars

\* C29: once every request has completed its mutation and its write, after a
\* single initialisation of the database, the file holds the data in memory.
C29_FileEqualsMemoryWhenQuiet ==
  (initRuns = 1 /\ \A i \in Requests : dbreq[i].pc = "done") => file = Some(data)

\* C30: jsonDatabase.init is entered at most once, and a load of the file
\* never removes from memory a record that was there.
C30_InitOnceAndNothingDiscarded ==
  /\ [](initRuns <= 1)
  /\ [][(\E i \in Requests : dbreq[i].pc = "loading" /\ dbreq'[i].pc = "ready")
          => Ids(data) \subseteq Ids(data')]_vars

====
